---- MODULE Spec2Model ----
(***************************************************************************)
(* Feature encoding of the Telco churn pipeline.                           *)
(*                                                                         *)
(* A record set (pandas DataFrame) is a sequence of columns; a column is   *)
(* a record [name, dtype, vals].  A cell is a triple <<kind, text, num>>   *)
(* so that text cells, numeric cells and missing cells are comparable.     *)
(* pandas semantics are those of pandas 1.x/2.x, the versions the          *)
(* pipeline's great_expectations dataset API runs on: Series.astype(str)   *)
(* on an object column turns a missing entry into the text "nan".          *)
(***************************************************************************)
EXTENDS Integers, Sequences, FiniteSets, TLC

VARIABLES pc, df, target_col, df_enc, df_enc2, mapped, feature_cols, request, produced, features,
          raw, caller, run, api, calls

vars == <<pc, df, target_col, df_enc, df_enc2, mapped, feature_cols, request, produced, features,
          raw, caller, run, api, calls>>

(***************************************************************************)
(* Bounds of the model.                                                    *)
(***************************************************************************)
MaxRows == 3
MaxRawRows == 2
MaxOmitted == 2
MaxWideRows == 4

(***************************************************************************)
(* Cells.                                                                  *)
(***************************************************************************)
Str(x) == <<"str", x, 0>>
Num(n) == <<"num", "", n>>
NaN == <<"nan", "", 0>>

isna(x) == x[1] = "nan"

Range(f) == {f[i] : i \in DOMAIN f}

(***************************************************************************)
(* Python string comparison: lexicographic on code points.                 *)
(***************************************************************************)
CodePoints ==
    ("Female" :> <<70, 101, 109, 97, 108, 101>>) @@
    ("Male" :> <<77, 97, 108, 101>>) @@
    ("No" :> <<78, 111>>) @@
    ("Yes" :> <<89, 101, 115>>) @@
    ("nan" :> <<110, 97, 110>>) @@
    ("Month-to-month" :> <<77, 111, 110, 116, 104, 45, 116, 111, 45, 109, 111, 110, 116, 104>>) @@
    ("One year" :> <<79, 110, 101, 32, 121, 101, 97, 114>>) @@
    ("Two year" :> <<84, 119, 111, 32, 121, 101, 97, 114>>)

RECURSIVE SeqLess(_, _)
SeqLess(a, b) ==
    IF b = <<>> THEN FALSE
    ELSE IF a = <<>> THEN TRUE
    ELSE IF Head(a) # Head(b) THEN Head(a) < Head(b)
    ELSE SeqLess(Tail(a), Tail(b))

StrLess(a, b) == SeqLess(CodePoints[a], CodePoints[b])

\* sorted(list) on a list of distinct strings: insertion into ascending order
RECURSIVE sorted(_)
sorted(l) ==
    IF l = <<>> THEN <<>>
    ELSE LET rest == sorted(Tail(l))
             lo == SelectSeq(rest, LAMBDA y : StrLess(y, Head(l)))
             hi == SelectSeq(rest, LAMBDA y : ~StrLess(y, Head(l)))
         IN lo \o <<Head(l)>> \o hi

(***************************************************************************)
(* Series operations.                                                      *)
(***************************************************************************)
dropna(vals) == SelectSeq(vals, LAMBDA x : ~isna(x))

\* Series.unique(): distinct entries in order of first appearance
RECURSIVE unique(_)
unique(vals) ==
    IF vals = <<>> THEN <<>>
    ELSE LET u == unique(SubSeq(vals, 1, Len(vals) - 1))
             x == vals[Len(vals)]
         IN IF x \in Range(u) THEN u ELSE Append(u, x)

nunique(vals) == Cardinality(Range(dropna(vals)))

\* Series.astype(str) on an object column: text stays, missing becomes "nan"
astype_str(vals) ==
    [i \in DOMAIN vals |->
        IF isna(vals[i]) THEN Str("nan")
        ELSE IF vals[i][1] = "str" THEN vals[i]
        ELSE Str(ToString(vals[i][3]))]

\* Series.map(dict).astype("Int64"): a key of the dict gives its number,
\* anything else (missing included) gives a missing entry
map_Int64(vals, mapping) ==
    [i \in DOMAIN vals |->
        IF vals[i][1] = "str" /\ vals[i][2] \in DOMAIN mapping
        THEN Num(mapping[vals[i][2]])
        ELSE NaN]

Series(dtype, vals) == [dtype |-> dtype, vals |-> vals]

(***************************************************************************)
(* _map_binary_series                                                      *)
(***************************************************************************)
\* variant: 0/1 assigned in order of first appearance, no fixed mapping
_map_binary_series_first_seen(s) ==
    LET u == unique(dropna(s.vals))
        vals == [i \in DOMAIN u |-> astype_str(u)[i][2]]
    IN IF Len(vals) = 2
       THEN Series("Int64", map_Int64(astype_str(s.vals), (vals[1] :> 0) @@ (vals[2] :> 1)))
       ELSE s

_map_binary_series(s) ==
    LET u == unique(dropna(s.vals))
        vals == [i \in DOMAIN u |-> astype_str(u)[i][2]]
        valset == Range(vals)
    IN IF valset = {"Yes", "No"}
       THEN Series("Int64", map_Int64(s.vals, ("No" :> 0) @@ ("Yes" :> 1)))
       ELSE IF valset = {"Male", "Female"}
       THEN Series("Int64", map_Int64(s.vals, ("Female" :> 0) @@ ("Male" :> 1)))
       ELSE IF Len(vals) = 2
       THEN LET sorted_vals == sorted(vals)
                mapping == (sorted_vals[1] :> 0) @@ (sorted_vals[2] :> 1)
            IN Series("Int64", map_Int64(astype_str(s.vals), mapping))
       ELSE s

(***************************************************************************)
(* Record-set (DataFrame) operations.                                      *)
(***************************************************************************)
Column(name, dtype, vals) == [name |-> name, dtype |-> dtype, vals |-> vals]

columns(frame) == [i \in DOMAIN frame |-> frame[i].name]

has_column(frame, c) == \E i \in DOMAIN frame : frame[i].name = c

\* df[c]
col(frame, c) == frame[CHOOSE i \in DOMAIN frame : frame[i].name = c]

\* df.select_dtypes(include=dtypes).columns
select_dtypes(frame, dtypes) ==
    columns(SelectSeq(frame, LAMBDA x : x.dtype \in dtypes))

\* df.drop(columns=names)
drop(frame, names) == SelectSeq(frame, LAMBDA x : x.name \notin names)

\* astype(int) of the boolean columns
bool_to_int(frame) ==
    [i \in DOMAIN frame |->
        IF frame[i].dtype = "bool"
        THEN Column(frame[i].name, "int64", frame[i].vals)
        ELSE frame[i]]

is_integer_dtype(dtype) == dtype \in {"int64", "Int64"}

\* Series.fillna(0).astype(int)
fillna0_int(vals) == [i \in DOMAIN vals |-> IF isna(vals[i]) THEN Num(0) ELSE vals[i]]

(***************************************************************************)
(* pandas.get_dummies(df, columns=..., drop_first=True)                    *)
(***************************************************************************)
\* indicator columns of one field: levels are the sorted distinct non-missing
\* values, the first level is dropped, a missing entry gives 0 everywhere
\* variant: levels in order of first appearance instead of sorted
_get_dummies_1d_first_seen(column, drop_first) ==
    LET u == unique(dropna(column.vals))
        levels == [i \in DOMAIN u |-> u[i][2]]
        kept == IF drop_first /\ levels # <<>> THEN Tail(levels) ELSE levels
    IN [k \in DOMAIN kept |->
           Column(column.name \o "_" \o kept[k], "bool",
                  [i \in DOMAIN column.vals |->
                      Num(IF column.vals[i] = Str(kept[k]) THEN 1 ELSE 0)])]

_get_dummies_1d(column, drop_first) ==
    LET u == unique(dropna(column.vals))
        levels == sorted([i \in DOMAIN u |-> u[i][2]])
        kept == IF drop_first /\ levels # <<>> THEN Tail(levels) ELSE levels
    IN [k \in DOMAIN kept |->
           Column(column.name \o "_" \o kept[k], "bool",
                  [i \in DOMAIN column.vals |->
                      Num(IF column.vals[i] = Str(kept[k]) THEN 1 ELSE 0)])]

RECURSIVE concat_dummies(_, _, _)
concat_dummies(frame, cols, drop_first) ==
    IF cols = <<>> THEN <<>>
    ELSE _get_dummies_1d(col(frame, Head(cols)), drop_first)
         \o concat_dummies(frame, Tail(cols), drop_first)

get_dummies(frame, cols, drop_first) ==
    drop(frame, Range(cols)) \o concat_dummies(frame, cols, drop_first)

(***************************************************************************)
(* build_features                                                          *)
(***************************************************************************)
\* step 1: the text fields, target excluded
obj_cols(frame, target) ==
    SelectSeq(select_dtypes(frame, {"object"}), LAMBDA c : c # target)

\* step 1: the numeric fields
numeric_cols(frame) == select_dtypes(frame, {"int64", "float64"})

\* variant: two or more distinct values count as binary
binary_cols_at_least_two(frame, target) ==
    SelectSeq(obj_cols(frame, target), LAMBDA c : nunique(col(frame, c).vals) >= 2)

\* step 2: exactly two distinct non-missing values
binary_cols(frame, target) ==
    SelectSeq(obj_cols(frame, target), LAMBDA c : nunique(col(frame, c).vals) = 2)

\* variant: every text field that is not binary is one-hot encoded
multi_cols_not_binary(frame, target) ==
    SelectSeq(obj_cols(frame, target), LAMBDA c : nunique(col(frame, c).vals) # 2)

\* step 2: more than two distinct non-missing values
multi_cols(frame, target) ==
    SelectSeq(obj_cols(frame, target), LAMBDA c : nunique(col(frame, c).vals) > 2)

\* steps 3 and 4: the binary fields are assigned their encoding, the
\* boolean columns their integer values, into the frame df is bound to
encode_binary_and_bool(frame, target) ==
    bool_to_int([i \in DOMAIN frame |->
        IF frame[i].name \in Range(binary_cols(frame, target))
        THEN LET s == _map_binary_series(Series("object", astype_str(frame[i].vals)))
             IN Column(frame[i].name, s.dtype, s.vals)
        ELSE frame[i]])

\* step 6: nullable Int64 to int, on the columns named in binary
fill_binary(frame, binary) ==
    [i \in DOMAIN frame |->
        IF frame[i].name \in Range(binary) /\ is_integer_dtype(frame[i].dtype)
        THEN Column(frame[i].name, "int64", fillna0_int(frame[i].vals))
        ELSE frame[i]]

build_features(frame, target) ==
    LET binary == binary_cols(frame, target)
        multi == multi_cols(frame, target)
        df4 == encode_binary_and_bool(frame, target)
        \* step 5: one-hot encoding
        df5 == IF multi # <<>> THEN get_dummies(df4, multi, TRUE) ELSE df4
    IN fill_binary(df5, binary)

\* variant: no defensive copy; steps 3 and 4 assign into the caller's
\* record set, and so does step 6 when get_dummies has not rebound df
build_features_caller_no_copy(frame, target) ==
    IF multi_cols(frame, target) # <<>>
    THEN encode_binary_and_bool(frame, target)
    ELSE fill_binary(encode_binary_and_bool(frame, target), binary_cols(frame, target))

\* the caller's record set after the call: df = df.copy() rebinds df before
\* the first assignment, so every assignment goes to the copy
build_features_caller(frame, target) == frame

(***************************************************************************)
(* Training run (scripts/run_pipeline.py, main, steps 3 and following):    *)
(* encode the cleaned data and persist the feature column list.            *)
(***************************************************************************)
\* feature_cols = list(df_enc.drop(columns=[target]).columns)
\* variant: the column list is taken before the target is dropped
feature_columns_with_target(frame, target) == columns(frame)

feature_columns(frame, target) == columns(drop(frame, {target}))

(***************************************************************************)
(* Serving transform (src/serving/inference.py, not part of the sources):  *)
(* the same encoding over the single record, then reconciliation against   *)
(* the persisted column list.                                              *)
(***************************************************************************)
\* df.reindex(columns=cols, fill_value=0) on a one-row frame
\* variant: fill_value left at its default, absent columns come out missing
reindex_default_fill(frame, cols) ==
    [i \in DOMAIN cols |->
        IF has_column(frame, cols[i]) THEN col(frame, cols[i])
        ELSE Column(cols[i], "float64", <<NaN>>)]

\* variant: the columns the record produced are kept after the listed ones
reindex_keep_produced(frame, cols) ==
    [i \in DOMAIN cols |->
        IF has_column(frame, cols[i]) THEN col(frame, cols[i])
        ELSE Column(cols[i], "int64", <<Num(0)>>)]
    \o drop(frame, Range(cols))

reindex(frame, cols) ==
    [i \in DOMAIN cols |->
        IF has_column(frame, cols[i]) THEN col(frame, cols[i])
        ELSE Column(cols[i], "int64", <<Num(0)>>)]

\* step 2 of the serving transform: the encoding logic over the one record
encode_record(record, target) == bool_to_int(build_features(record, target))

(***************************************************************************)
(* Inputs: cleaned record sets of 1..MaxRows rows with the columns         *)
(* gender, tenure, Contract, Churn (text, number, text, 0/1 target).       *)
(***************************************************************************)
GenderValues == {"Female", "Male", "No", "Yes"}
ContractValues == {"Month-to-month", "One year", "Two year"}

TextCells(V) == {Str(v) : v \in V}

RecordSet(g, c) ==
    << Column("gender", "object", g),
       Column("tenure", "int64", [i \in DOMAIN g |-> Num(i)]),
       Column("Contract", "object", c),
       Column("Churn", "int64", [i \in DOMAIN g |-> Num(i % 2)]) >>

\* a raw request record: the pre-encoding fields, no target
Record(g, c, t) ==
    << Column("gender", "object", <<g>>),
       Column("Contract", "object", <<c>>),
       Column("tenure", "int64", <<t>>) >>

\* row i of a record set as a raw request record
row(frame, i) ==
    Record(col(frame, "gender").vals[i], col(frame, "Contract").vals[i],
           col(frame, "tenure").vals[i])

NoFrame == <<>>

\* no training run started, no request handled
NoRun ==
    [log |-> <<>>, metrics |-> {}, files |-> {}, failed_expectations |-> <<>>,
     error |-> "", feature_columns_json |-> <<>>,
     preprocessing_pkl |-> [feature_columns |-> <<>>, target |-> ""],
     X |-> NoFrame, fitted |-> FALSE]
\* no preprocess_data call is under way
NoCalls == <<>>

NoCall ==
    [state |-> "idle", payload |-> {}, record |-> <<>>, predict_called |-> FALSE,
     status |-> 0, response |-> [keys |-> {}, text |-> ""], propagated |-> FALSE]

\* the target named on the command line: the 0/1 column Churn, or a text field
TargetCols == {"Churn", "Contract"}

InitData ==
    /\ pc = "start"
    /\ \E n \in 1..MaxRows :
         \E g \in [1..n -> TextCells(GenderValues) \cup {NaN}] :
           \E c \in [1..n -> TextCells(ContractValues)] :
              df = RecordSet(g, c)
    /\ df_enc = NoFrame
    /\ df_enc2 = NoFrame
    /\ mapped = NoFrame
    /\ feature_cols = <<>>
    /\ request = NoFrame
    /\ produced = NoFrame
    /\ features = NoFrame
    /\ raw = NoFrame
    /\ caller = NoFrame
    /\ run = NoRun
    /\ api = NoCall
    /\ calls = NoCalls

Init == InitData /\ target_col \in TargetCols

\* the deployed service is trained with the default target
InitServe == InitData /\ target_col = "Churn"

\* build_features(df, target_col)
BuildFeatures ==
    /\ pc = "start"
    /\ df_enc' = build_features(df, target_col)
    /\ caller' = build_features_caller(df, target_col)
    /\ pc' = "built"
    /\ UNCHANGED <<calls, df, target_col, df_enc2, mapped, feature_cols, request, produced, features, raw, run, api>>

\* build_features applied to its own output
ReEncode ==
    /\ pc = "built"
    /\ df_enc2' = build_features(df_enc, target_col)
    /\ pc' = "reencoded"
    /\ UNCHANGED <<calls, df, target_col, df_enc, mapped, feature_cols, request, produced, features, raw, caller, run, api>>

\* _map_binary_series(df[c]) on a text column of the record set
MapBinary(c) ==
    /\ pc = "start"
    /\ has_column(df, c)
    /\ col(df, c).dtype = "object"
    /\ LET s == _map_binary_series(Series("object", col(df, c).vals))
       IN mapped' = <<Column(c, s.dtype, s.vals)>>
    /\ pc' = "mapped"
    /\ UNCHANGED <<calls, df, target_col, df_enc, df_enc2, feature_cols, request, produced, features, raw, caller, run, api>>

\* run_pipeline.main from the cleaned data on: feature engineering and
\* persistence of the column contract
Train ==
    /\ pc = "start"
    /\ IF ~has_column(df, target_col)
       THEN /\ pc' = "error"
            /\ UNCHANGED <<df_enc, feature_cols>>
       ELSE /\ df_enc' = bool_to_int(build_features(df, target_col))
            /\ feature_cols' = feature_columns(df_enc', target_col)
            /\ pc' = "trained"
    /\ UNCHANGED <<calls, df, target_col, df_enc2, mapped, request, produced, features, raw, caller, run, api>>

\* one inference call with a raw record
Predict(r) ==
    /\ pc = "trained"
    /\ request' = r
    /\ produced' = encode_record(r, target_col)
    /\ features' = reindex(produced', feature_cols)
    /\ pc' = "served"
    /\ UNCHANGED <<calls, df, target_col, df_enc, df_enc2, mapped, feature_cols, raw, caller, run, api>>

Requests ==
    {Record(g, c, Num(1)) : g \in TextCells(GenderValues), c \in TextCells(ContractValues)}
    \cup {row(df, i) : i \in 1..Len(df[1].vals)}

Next ==
    \/ BuildFeatures
    \/ ReEncode
    \/ \E c \in {"gender", "Contract"} : MapBinary(c)

Spec == Init /\ [][Next]_vars

NextServe ==
    \/ Train
    \/ \E r \in Requests : Predict(r)

SpecServe == InitServe /\ [][NextServe]_vars

(***************************************************************************)
(* preprocess_data                                                         *)
(***************************************************************************)
\* str.strip(): the padded strings of the model and what they trim to; a
\* string without surrounding whitespace is its own trim
Stripped ==
    (" Yes" :> "Yes") @@ ("No " :> "No") @@ ("Churn " :> "Churn")

str_strip(x) == IF x \in DOMAIN Stripped THEN Stripped[x] ELSE x

\* the texts that parse as a number, and their value
NumericText == ("20" :> 20) @@ ("10" :> 10)

\* variant: errors="ignore", a column with an invalid entry is returned as is
to_numeric_errors_ignore(column) ==
    IF \E x \in Range(column.vals) : x[1] = "str" /\ x[2] \notin DOMAIN NumericText
    THEN column
    ELSE Column(column.name, "float64",
                [i \in DOMAIN column.vals |->
                    IF column.vals[i][1] = "str"
                    THEN Num(NumericText[column.vals[i][2]]) ELSE column.vals[i]])

\* pd.to_numeric(column, errors="coerce"): what does not parse becomes missing
to_numeric(column) ==
    Column(column.name, "float64",
           [i \in DOMAIN column.vals |->
               IF column.vals[i][1] = "str"
               THEN IF column.vals[i][2] \in DOMAIN NumericText
                    THEN Num(NumericText[column.vals[i][2]]) ELSE NaN
               ELSE column.vals[i]])

\* step 1: df.columns = df.columns.str.strip()
strip_columns(frame) ==
    [i \in DOMAIN frame |-> Column(str_strip(frame[i].name), frame[i].dtype, frame[i].vals)]

\* step 2: the identifier columns are dropped
IdColumns == {"customerID", "CustomerID", "customer_id"}

drop_ids(frame) == drop(frame, IdColumns)

\* variant: the label is mapped as written, without trimming
encode_target_no_strip(column) ==
    LET vals == [i \in DOMAIN column.vals |->
                    IF column.vals[i] = Str("No") THEN Num(0)
                    ELSE IF column.vals[i] = Str("Yes") THEN Num(1)
                    ELSE NaN]
    IN Column(column.name, IF NaN \in Range(vals) THEN "float64" ELSE "int64", vals)

\* step 3: df[target].str.strip().map({"No": 0, "Yes": 1})
encode_target(column) ==
    LET vals == [i \in DOMAIN column.vals |->
                    IF column.vals[i][1] = "str" /\ str_strip(column.vals[i][2]) = "No"
                    THEN Num(0)
                    ELSE IF column.vals[i][1] = "str" /\ str_strip(column.vals[i][2]) = "Yes"
                    THEN Num(1)
                    ELSE NaN]
    IN Column(column.name, IF NaN \in Range(vals) THEN "float64" ELSE "int64", vals)

\* step 3 on the frame it assigns into: a text target is encoded
map_target(frame, target) ==
    [i \in DOMAIN frame |->
        IF frame[i].name = target /\ frame[i].dtype = "object"
        THEN encode_target(frame[i]) ELSE frame[i]]

\* steps 4 to 6: TotalCharges to numbers, SeniorCitizen to int, missing
\* numbers to 0
coerce_and_fill(frame) ==
    LET d4 == [i \in DOMAIN frame |->
                 IF frame[i].name = "TotalCharges" THEN to_numeric(frame[i]) ELSE frame[i]]
        d5 == [i \in DOMAIN d4 |->
                 IF d4[i].name = "SeniorCitizen"
                 THEN Column(d4[i].name, "int64", fillna0_int(d4[i].vals)) ELSE d4[i]]
    IN [i \in DOMAIN d5 |->
          IF d5[i].dtype \in {"int64", "float64", "Int64"}
          THEN Column(d5[i].name, d5[i].dtype, fillna0_int(d5[i].vals))
          ELSE d5[i]]

\* variant: steps 3 to 5 only, the numeric columns are not filled
clean_columns_no_fill(frame, target) ==
    LET d3 == map_target(frame, target)
        d4 == [i \in DOMAIN d3 |->
                 IF d3[i].name = "TotalCharges" THEN to_numeric(d3[i]) ELSE d3[i]]
    IN [i \in DOMAIN d4 |->
          IF d4[i].name = "SeniorCitizen"
          THEN Column(d4[i].name, "int64", fillna0_int(d4[i].vals)) ELSE d4[i]]

\* steps 3 to 6 on the frame they assign into
clean_columns(frame, target) == coerce_and_fill(map_target(frame, target))

preprocess_data(frame, target) ==
    clean_columns(drop_ids(strip_columns(frame)), target)

\* the record set the caller passed, after the call: the column names are
\* trimmed in place; df.drop rebinds df to a new object only if an
\* identifier column is present, otherwise steps 3 to 6 assign into the
\* caller's object
preprocess_caller(frame, target) ==
    IF \E c \in IdColumns : has_column(strip_columns(frame), c)
    THEN strip_columns(frame)
    ELSE clean_columns(strip_columns(frame), target)

(***************************************************************************)
(* prepare_processed_data.py: target safeguard and sanity assertions       *)
(***************************************************************************)
\* step 3: a target that is still text is mapped again, as nullable Int64
secure_target(frame) ==
    [i \in DOMAIN frame |->
        IF frame[i].name = "Churn" /\ frame[i].dtype = "object"
        THEN Column("Churn", "Int64", encode_target(frame[i]).vals)
        ELSE frame[i]]

\* the two assert statements
sanity_assertions(frame) ==
    /\ NaN \notin Range(col(frame, "Churn").vals)
    /\ Range(col(frame, "Churn").vals) \subseteq {Num(0), Num(1)}

(***************************************************************************)
(* Raw record sets, as read from the CSV file: 1..MaxRawRows rows.         *)
(***************************************************************************)
\* TotalCharges as read_csv types it: numbers if every entry parses (an
\* empty field is missing), text as soon as one entry is blank
RawTotalCharges(cells) ==
    IF \E x \in Range(cells) : x[1] = "str" /\ x[2] \notin DOMAIN NumericText
    THEN Column("TotalCharges", "object", cells)
    ELSE to_numeric(Column("TotalCharges", "object", cells))

RawSet(idcol, churn_name, g, mc, tc, ch) ==
    (IF idcol THEN <<Column("customerID", "object", [i \in DOMAIN g |-> Str("id")])>> ELSE <<>>)
    \o << Column("gender", "object", g),
          Column("SeniorCitizen", "int64", [i \in DOMAIN g |-> Num(0)]),
          Column("Partner", "object", [i \in DOMAIN g |-> Str("Yes")]),
          Column("Dependents", "object", [i \in DOMAIN g |-> Str("No")]),
          Column("tenure", "int64", [i \in DOMAIN g |-> Num(i)]),
          Column("PhoneService", "object", [i \in DOMAIN g |-> Str("Yes")]),
          Column("InternetService", "object", [i \in DOMAIN g |-> Str("No")]),
          Column("Contract", "object", [i \in DOMAIN g |-> Str("One year")]),
          Column("MonthlyCharges", "float64", mc),
          RawTotalCharges(tc),
          Column(churn_name, "object", ch) >>

InitOther ==
    /\ pc = "start"
    /\ df = NoFrame
    /\ df_enc = NoFrame
    /\ df_enc2 = NoFrame
    /\ mapped = NoFrame
    /\ feature_cols = <<>>
    /\ request = NoFrame
    /\ produced = NoFrame
    /\ features = NoFrame
    /\ caller = NoFrame
    /\ run = NoRun
    /\ api = NoCall
    /\ calls = NoCalls

InitPreprocess ==
    /\ InitOther
    /\ target_col = "Churn"
    /\ \E n \in 1..MaxRawRows :
         \E idcol \in BOOLEAN, churn_name \in {"Churn", "Churn "} :
           \E g \in [1..n -> {Str("Male"), NaN}],
              mc \in [1..n -> {Num(20), NaN}],
              tc \in [1..n -> {Str("20"), Str(" ")}],
              ch \in [1..n -> {Str("No"), Str(" Yes"), Str("Maybe"), NaN}] :
                raw = RawSet(idcol, churn_name, g, mc, tc, ch)

\* preprocess_data(raw, target_col="Churn")
Preprocess ==
    /\ pc = "start"
    /\ df' = preprocess_data(raw, target_col)
    /\ caller' = preprocess_caller(raw, target_col)
    /\ pc' = "cleaned"
    /\ UNCHANGED <<calls, target_col, df_enc, df_enc2, mapped, feature_cols, request, produced,
                   features, raw, run, api>>

NextPreprocess == Preprocess

SpecPreprocess == InitPreprocess /\ [][NextPreprocess]_vars

(***************************************************************************)
(* validate_telco_data: the expectations, on a frame that has the columns  *)
(* they name.  Missing values are not counted by the value expectations.   *)
(***************************************************************************)
expect_column_to_exist(frame, c) == has_column(frame, c)

expect_column_values_to_not_be_null(frame, c) ==
    NaN \notin Range(col(frame, c).vals)

expect_column_values_to_be_in_set(frame, c, value_set) ==
    \A x \in Range(col(frame, c).vals) :
        ~isna(x) => (x[1] = "str" /\ x[2] \in value_set)

\* max_value = -1 stands for "no upper bound"
expect_column_values_to_be_between(frame, c, min_value, max_value) ==
    \A x \in Range(col(frame, c).vals) :
        ~isna(x) => (x[3] >= min_value /\ (max_value = -1 \/ x[3] <= max_value))

\* or_equal=True, mostly=0.95; a row is left out only if both values are
\* missing, and a comparison with one missing value is not a success
expect_column_pair_values_A_to_be_greater_than_B(frame, A, B) ==
    LET a == col(frame, A).vals
        b == col(frame, B).vals
        counted == {i \in DOMAIN a : ~(isna(a[i]) /\ isna(b[i]))}
        good == {i \in counted : ~isna(a[i]) /\ ~isna(b[i]) /\ a[i][3] >= b[i][3]}
    IN 100 * Cardinality(good) >= 95 * Cardinality(counted)

RequiredColumns ==
    {"customerID", "gender", "Partner", "Dependents", "PhoneService",
     "InternetService", "Contract", "tenure", "MonthlyCharges", "TotalCharges"}

Result(type, column, ok) ==
    [expectation_type |-> type, column |-> column, success |-> ok]

\* results["results"] of ge_df.validate(): one result for each expectation of
\* the suite, in the order they were declared; a second expectation of the
\* same type on the same column (tenure and MonthlyCharges between) stands
\* in the place of the first
validation_results(frame) ==
    << Result("expect_column_to_exist", "customerID",
              expect_column_to_exist(frame, "customerID")),
       Result("expect_column_values_to_not_be_null", "customerID",
              expect_column_values_to_not_be_null(frame, "customerID")),
       Result("expect_column_to_exist", "gender", expect_column_to_exist(frame, "gender")),
       Result("expect_column_to_exist", "Partner", expect_column_to_exist(frame, "Partner")),
       Result("expect_column_to_exist", "Dependents",
              expect_column_to_exist(frame, "Dependents")),
       Result("expect_column_to_exist", "PhoneService",
              expect_column_to_exist(frame, "PhoneService")),
       Result("expect_column_to_exist", "InternetService",
              expect_column_to_exist(frame, "InternetService")),
       Result("expect_column_to_exist", "Contract", expect_column_to_exist(frame, "Contract")),
       Result("expect_column_to_exist", "tenure", expect_column_to_exist(frame, "tenure")),
       Result("expect_column_to_exist", "MonthlyCharges",
              expect_column_to_exist(frame, "MonthlyCharges")),
       Result("expect_column_to_exist", "TotalCharges",
              expect_column_to_exist(frame, "TotalCharges")),
       Result("expect_column_values_to_be_in_set", "gender",
              expect_column_values_to_be_in_set(frame, "gender", {"Male", "Female"})),
       Result("expect_column_values_to_be_in_set", "Partner",
              expect_column_values_to_be_in_set(frame, "Partner", {"Yes", "No"})),
       Result("expect_column_values_to_be_in_set", "Dependents",
              expect_column_values_to_be_in_set(frame, "Dependents", {"Yes", "No"})),
       Result("expect_column_values_to_be_in_set", "PhoneService",
              expect_column_values_to_be_in_set(frame, "PhoneService", {"Yes", "No"})),
       Result("expect_column_values_to_be_in_set", "Contract",
              expect_column_values_to_be_in_set(frame, "Contract",
                                                {"Month-to-month", "One year", "Two year"})),
       Result("expect_column_values_to_be_in_set", "InternetService",
              expect_column_values_to_be_in_set(frame, "InternetService",
                                                {"DSL", "Fiber optic", "No"})),
       Result("expect_column_values_to_be_between", "tenure",
              expect_column_values_to_be_between(frame, "tenure", 0, 120)),
       Result("expect_column_values_to_be_between", "MonthlyCharges",
              expect_column_values_to_be_between(frame, "MonthlyCharges", 0, 200)),
       Result("expect_column_values_to_be_between", "TotalCharges",
              expect_column_values_to_be_between(frame, "TotalCharges", 0, -1)),
       Result("expect_column_values_to_not_be_null", "tenure",
              expect_column_values_to_not_be_null(frame, "tenure")),
       Result("expect_column_values_to_not_be_null", "MonthlyCharges",
              expect_column_values_to_not_be_null(frame, "MonthlyCharges")),
       Result("expect_column_pair_values_A_to_be_greater_than_B", "TotalCharges",
              expect_column_pair_values_A_to_be_greater_than_B(frame, "TotalCharges",
                                                               "MonthlyCharges")) >>

\* variant: the run counts as a success when at least 95% of the checks passed
results_success_mostly(results) ==
    100 * Cardinality({i \in DOMAIN results : results[i].success}) >= 95 * Len(results)

\* results["success"]: every expectation of the suite succeeded
results_success(results) == \A i \in DOMAIN results : results[i].success

\* the list built by the loop: the expectation_type of each failed result
failed_expectations(results) ==
    LET failed == SelectSeq(results, LAMBDA r : ~r.success)
    IN [i \in DOMAIN failed |-> failed[i].expectation_type]

\* returns results["success"], failed_expectations
validate_telco_data(frame) ==
    LET results == validation_results(frame)
    IN [success |-> results_success(results), failed |-> failed_expectations(results)]

(***************************************************************************)
(* run_pipeline.py: main, one action per stage of the run                  *)
(***************************************************************************)
\* variant: the run goes on whatever the validation said
quality_gate_never_raises(is_valid) == FALSE

\* if not is_valid: ... raise ValueError
quality_gate_raises(is_valid) == ~is_valid

\* variant: the target is not looked for
target_missing_never(frame, target) == FALSE

\* if target not in df.columns: raise ValueError
target_missing(frame, target) == ~has_column(frame, target)

int(b) == IF b THEN 1 ELSE 0

\* --target, "Churn" unless the command line names another column
TargetArgs == {"Churn", "churn"}

\* the CSV files of the training run: every required column is there,
\* TotalCharges and MonthlyCharges are read as numbers
InitPipeline ==
    /\ InitOther
    /\ target_col \in TargetArgs
    /\ \E n \in 1..MaxRawRows :
         \E g \in [1..n -> {Str("Male"), Str("Female"), Str("Yes"), NaN}],
            mc \in [1..n -> {Num(20), NaN}],
            tc \in [1..n -> {Str("20"), Str("10")}],
            ch \in [1..n -> {Str("No"), Str("Yes")}] :
              raw = RawSet(TRUE, "Churn", g, mc, tc, ch)

\* step 1: validation, the data_quality_pass metric, the quality gate
Validate ==
    /\ pc = "start"
    /\ LET v == validate_telco_data(raw)
           logged == [run EXCEPT !.log = Append(@, "validate_telco_data"),
                                 !.metrics = @ \cup {<<"data_quality_pass", int(v.success)>>}]
       IN IF quality_gate_raises(v.success)
          THEN /\ run' = [logged EXCEPT !.files = @ \cup {"failed_expectations.json"},
                                        !.failed_expectations = v.failed,
                                        !.error = "ValueError: quality"]
               /\ pc' = "error"
          ELSE /\ run' = logged
               /\ pc' = "validated"
    /\ UNCHANGED <<calls, df, target_col, df_enc, df_enc2, mapped, feature_cols, request, produced,
                   features, raw, caller, api>>

\* step 2: df = preprocess_data(df); the processed frame is saved
RunPreprocess ==
    /\ pc = "validated"
    /\ df' = preprocess_data(raw, "Churn")
    /\ caller' = preprocess_caller(raw, "Churn")
    /\ run' = [run EXCEPT !.log = Append(@, "preprocess_data"),
                          !.files = @ \cup {"telco_churn_processed.csv"}]
    /\ pc' = "preprocessed"
    /\ UNCHANGED <<calls, target_col, df_enc, df_enc2, mapped, feature_cols, request, produced,
                   features, raw, api>>

\* step 3: the target is looked for, then build_features and the booleans as integers
RunBuildFeatures ==
    /\ pc = "preprocessed"
    /\ IF target_missing(df, target_col)
       THEN /\ run' = [run EXCEPT !.error = "ValueError: target"]
            /\ pc' = "error"
            /\ UNCHANGED df_enc
       ELSE /\ df_enc' = bool_to_int(build_features(df, target_col))
            /\ run' = [run EXCEPT !.log = Append(@, "build_features")]
            /\ pc' = "encoded"
    /\ UNCHANGED <<calls, df, target_col, df_enc2, mapped, feature_cols, request, produced,
                   features, raw, caller, api>>

\* the column list is written to feature_columns.json and preprocessing.pkl
SaveArtifacts ==
    /\ pc = "encoded"
    /\ feature_cols' = feature_columns(df_enc, target_col)
    /\ run' = [run EXCEPT !.log = Append(@, "save_artifacts"),
                          !.files = @ \cup {"feature_columns.json", "feature_columns.txt",
                                            "preprocessing.pkl"},
                          !.feature_columns_json = feature_cols',
                          !.preprocessing_pkl = [feature_columns |-> feature_cols',
                                                 target |-> target_col]]
    /\ pc' = "saved"
    /\ UNCHANGED <<calls, df, target_col, df_enc, df_enc2, mapped, request, produced,
                   features, raw, caller, api>>

\* steps 4 and 5: X = df_enc.drop(columns=[target]); the model is fitted on rows of X
Fit ==
    /\ pc = "saved"
    /\ run' = [run EXCEPT !.log = Append(@, "fit"),
                          !.X = drop(df_enc, {target_col}),
                          !.fitted = TRUE]
    /\ pc' = "fitted"
    /\ UNCHANGED <<calls, df, target_col, df_enc, df_enc2, mapped, feature_cols, request, produced,
                   features, raw, caller, api>>

NextPipeline == Validate \/ RunPreprocess \/ RunBuildFeatures \/ SaveArtifacts \/ Fit

SpecPipeline == InitPipeline /\ [][NextPipeline]_vars

(***************************************************************************)
(* app/main.py: the /predict endpoint.  A request is the set of field      *)
(* names its JSON body carries.                                            *)
(***************************************************************************)
\* class CustomerData(BaseModel): every field is declared without a default
CustomerDataFields ==
    {"gender", "Partner", "Dependents", "PhoneService", "MultipleLines",
     "InternetService", "OnlineSecurity", "OnlineBackup", "DeviceProtection",
     "TechSupport", "StreamingTV", "StreamingMovies", "Contract",
     "PaperlessBilling", "PaymentMethod", "tenure", "MonthlyCharges", "TotalCharges"}

\* scripts/test_fastapi.py: the keys of sample_data
SampleFields ==
    {"gender", "SeniorCitizen", "Partner", "Dependents", "tenure", "PhoneService",
     "MultipleLines", "InternetService", "OnlineSecurity", "OnlineBackup",
     "DeviceProtection", "TechSupport", "StreamingTV", "StreamingMovies", "Contract",
     "PaperlessBilling", "PaymentMethod", "MonthlyCharges", "TotalCharges"}

\* variant: TechSupport is declared with a default value
missing_fields_TechSupport_optional(payload) ==
    (CustomerDataFields \ {"TechSupport"}) \ payload

\* the required fields the body does not carry
missing_fields(payload) == CustomerDataFields \ payload

\* data.dict(): the fields of the schema and nothing else, each one as sent
\* or, for a field with a default that the body omits, as the default
CustomerData_dict(payload) ==
    [f \in CustomerDataFields |-> IF f \in payload THEN "sent" ELSE "default"]

\* variant: no try/except around predict
get_prediction_no_try(outcome) ==
    IF outcome = "returns"
    THEN [response |-> [keys |-> {"prediction"}, text |-> "result"], propagated |-> FALSE]
    ELSE [response |-> [keys |-> {}, text |-> ""], propagated |-> TRUE]

\* get_prediction: what the handler returns for an outcome of predict
get_prediction(outcome) ==
    IF outcome = "returns"
    THEN [response |-> [keys |-> {"prediction"}, text |-> "result"], propagated |-> FALSE]
    ELSE [response |-> [keys |-> {"error"}, text |-> "str(e)"], propagated |-> FALSE]

\* predict either returns a result or raises an Exception
PredictOutcomes == {"returns", "raises"}

\* the bodies: the sample payload or the schema's fields, with up to
\* MaxOmitted fields left out
Payloads ==
    {base \ omitted :
        base \in {CustomerDataFields, SampleFields},
        omitted \in {o \in SUBSET CustomerDataFields : Cardinality(o) <= MaxOmitted}}

\* the raw fields the training encoder sees: the columns of the training
\* file without the customer identifier and the target
TrainingFeatureFields(frame) ==
    Range(columns(drop(strip_columns(frame), IdColumns \cup {"Churn"})))

InitApi ==
    /\ InitOther
    /\ target_col = "Churn"
    /\ raw = RawSet(TRUE, "Churn", <<Str("Male")>>, <<Num(20)>>, <<Str("20")>>, <<Str("No")>>)

\* POST /predict: the body is parsed into CustomerData; a body that lacks a
\* required field is answered 422 and the handler is not entered
ValidateRequest(payload) ==
    /\ api.state = "idle"
    /\ IF missing_fields(payload) # {}
       THEN api' = [api EXCEPT !.state = "rejected", !.payload = payload, !.status = 422,
                               !.response = [keys |-> {"detail"}, text |-> "field required"]]
       ELSE api' = [api EXCEPT !.state = "validated", !.payload = payload,
                               !.record = CustomerData_dict(payload)]
    /\ UNCHANGED <<calls, pc, df, target_col, df_enc, df_enc2, mapped, feature_cols, request,
                   produced, features, raw, caller, run>>

\* the handler body: predict(data.dict()) inside try/except Exception
GetPrediction(outcome) ==
    /\ api.state = "validated"
    /\ LET r == get_prediction(outcome)
       IN api' = [api EXCEPT !.state = "responded", !.predict_called = TRUE,
                             !.status = IF r.propagated THEN 500 ELSE 200,
                             !.response = r.response, !.propagated = r.propagated]
    /\ UNCHANGED <<calls, pc, df, target_col, df_enc, df_enc2, mapped, feature_cols, request,
                   produced, features, raw, caller, run>>

NextApi ==
    \/ \E payload \in Payloads : ValidateRequest(payload)
    \/ \E outcome \in PredictOutcomes : GetPrediction(outcome)

SpecApi == InitApi /\ [][NextApi]_vars

(***************************************************************************)
(* build_features on wider record sets: 1..MaxWideRows rows, a Contract    *)
(* field that may hold missing entries, and one more numeric column.       *)
(***************************************************************************)
\* the name of the additional column: a field of the Telco file, or a name
\* a one-hot encoded file already carries
ExtraNames == {"SeniorCitizen", "Contract_One year"}

InitWide ==
    /\ pc = "start"
    /\ target_col = "Churn"
    /\ df_enc = NoFrame
    /\ df_enc2 = NoFrame
    /\ mapped = NoFrame
    /\ feature_cols = <<>>
    /\ request = NoFrame
    /\ produced = NoFrame
    /\ features = NoFrame
    /\ raw = NoFrame
    /\ caller = NoFrame
    /\ run = NoRun
    /\ api = NoCall
    /\ calls = NoCalls
    /\ \E n \in 1..MaxWideRows :
         \E g \in [1..n -> TextCells({"Female", "Male"})],
            c \in [1..n -> TextCells(ContractValues) \cup {NaN}],
            extra \in ExtraNames :
              df = RecordSet(g, c) \o <<Column(extra, "int64", [i \in 1..n |-> Num(0)])>>

NextWide == BuildFeatures

SpecWide == InitWide /\ [][NextWide]_vars

(***************************************************************************)
(* Two preprocess_data calls on the same record-set object.  The object    *)
(* has no identifier column, so neither call rebinds df: every assignment  *)
(* of either call goes into the shared object, and that object is what     *)
(* each call returns.                                                      *)
(***************************************************************************)
Callers == {1, 2}

InitConcurrent ==
    /\ pc = "start"
    /\ target_col = "Churn"
    /\ df = NoFrame
    /\ df_enc = NoFrame
    /\ df_enc2 = NoFrame
    /\ mapped = NoFrame
    /\ feature_cols = <<>>
    /\ request = NoFrame
    /\ produced = NoFrame
    /\ features = NoFrame
    /\ run = NoRun
    /\ api = NoCall
    /\ \E n \in 1..MaxRawRows :
         \E churn_name \in {"Churn", "Churn "} :
           \E mc \in [1..n -> {Num(20), NaN}],
              tc \in [1..n -> {Str("20"), Str(" ")}],
              ch \in [1..n -> {Str("No"), Str(" Yes"), Str("Maybe"), NaN}] :
                raw = RawSet(FALSE, churn_name, [i \in 1..n |-> Str("Male")], mc, tc, ch)
    /\ caller = raw
    /\ calls = [p \in Callers |-> "trim"]

\* steps 1 and 2: the column names are trimmed; no identifier column is found
Trim(p) ==
    /\ calls[p] = "trim"
    /\ caller' = strip_columns(caller)
    /\ calls' = [calls EXCEPT ![p] = "check"]
    /\ UNCHANGED <<pc, df, target_col, df_enc, df_enc2, mapped, feature_cols, request,
                   produced, features, raw, run, api>>

\* step 3, the condition: target_col in df.columns and the column is text
CheckTarget(p) ==
    /\ calls[p] = "check"
    /\ calls' = [calls EXCEPT ![p] =
                    IF has_column(caller, target_col)
                       /\ col(caller, target_col).dtype = "object"
                    THEN "map" ELSE "fill"]
    /\ UNCHANGED <<pc, df, target_col, df_enc, df_enc2, mapped, feature_cols, request,
                   produced, features, raw, caller, run, api>>

\* step 3, the assignment: df[target].str.strip().map(...); the .str
\* accessor raises AttributeError on a column that is not text any more
MapTarget(p) ==
    /\ calls[p] = "map"
    /\ IF col(caller, target_col).dtype # "object"
       THEN /\ calls' = [calls EXCEPT ![p] = "raised"]
            /\ UNCHANGED caller
       ELSE /\ caller' = [i \in DOMAIN caller |->
                            IF caller[i].name = target_col
                            THEN encode_target(caller[i]) ELSE caller[i]]
            /\ calls' = [calls EXCEPT ![p] = "fill"]
    /\ UNCHANGED <<pc, df, target_col, df_enc, df_enc2, mapped, feature_cols, request,
                   produced, features, raw, run, api>>

\* steps 4 to 7: the numeric columns are coerced and filled, df is returned
FillNumeric(p) ==
    /\ calls[p] = "fill"
    /\ caller' = coerce_and_fill(caller)
    /\ calls' = [calls EXCEPT ![p] = "done"]
    /\ UNCHANGED <<pc, df, target_col, df_enc, df_enc2, mapped, feature_cols, request,
                   produced, features, raw, run, api>>

NextConcurrent ==
    \E p \in Callers : Trim(p) \/ CheckTarget(p) \/ MapTarget(p) \/ FillNumeric(p)

SpecConcurrent == InitConcurrent /\ [][NextConcurrent]_vars

(***************************************************************************)
(* Vocabulary of the properties.                                           *)
(***************************************************************************)
\* the non-target text fields of a record set
TextFields(frame, target) ==
    {frame[i].name : i \in {j \in DOMAIN frame : frame[j].dtype = "object" /\ frame[j].name # target}}

\* the distinct non-missing values of a column, as strings
Values(column) == {x[2] : x \in Range(dropna(column.vals))}

\* the lexicographically smallest string of a non-empty set
MinStr(S) == CHOOSE m \in S : \A y \in S \ {m} : StrLess(m, y)

\* the column _map_binary_series was applied to, and its result
MappedIn == col(df, mapped[1].name).vals
MappedOut == mapped[1].vals

(***************************************************************************)
(* C3: a text column whose distinct non-missing values are exactly         *)
(* {"Yes","No"} is encoded No -> 0, Yes -> 1 by _map_binary_series,        *)
(* whatever the row order and whichever value appears first.               *)
(***************************************************************************)
C3_YesNoEncoding ==
    (pc = "mapped" /\ Values(col(df, mapped[1].name)) = {"Yes", "No"}) =>
        \A i \in DOMAIN MappedIn :
            /\ MappedIn[i] = Str("No") => MappedOut[i] = Num(0)
            /\ MappedIn[i] = Str("Yes") => MappedOut[i] = Num(1)

\* Yes appears before No in the column
C3_Witness ==
    /\ pc = "mapped"
    /\ Values(col(df, mapped[1].name)) = {"Yes", "No"}
    /\ unique(dropna(MappedIn)) = <<Str("Yes"), Str("No")>>
    /\ MappedOut[1] = Num(1)

(***************************************************************************)
(* C4: a text column whose distinct non-missing values are exactly         *)
(* {"Male","Female"} is encoded Female -> 0, Male -> 1, also when Male     *)
(* appears first.                                                          *)
(***************************************************************************)
C4_GenderEncoding ==
    (pc = "mapped" /\ Values(col(df, mapped[1].name)) = {"Male", "Female"}) =>
        \A i \in DOMAIN MappedIn :
            /\ MappedIn[i] = Str("Female") => MappedOut[i] = Num(0)
            /\ MappedIn[i] = Str("Male") => MappedOut[i] = Num(1)

\* Male appears before Female in the column
C4_Witness ==
    /\ pc = "mapped"
    /\ Values(col(df, mapped[1].name)) = {"Male", "Female"}
    /\ unique(dropna(MappedIn)) = <<Str("Male"), Str("Female")>>
    /\ MappedOut[1] = Num(1)

(***************************************************************************)
(* C5: a text column with exactly two distinct non-missing values that     *)
(* are neither {Yes,No} nor {Male,Female} is encoded with the              *)
(* lexicographically smaller value -> 0 and the larger -> 1.               *)
(***************************************************************************)
GenericPair(V) ==
    /\ Cardinality(V) = 2
    /\ V # {"Yes", "No"}
    /\ V # {"Male", "Female"}

C5_GenericEncoding ==
    (pc = "mapped" /\ GenericPair(Values(col(df, mapped[1].name)))) =>
        LET V == Values(col(df, mapped[1].name))
            lo == MinStr(V)
        IN \A i \in DOMAIN MappedIn :
              /\ MappedIn[i] = Str(lo) => MappedOut[i] = Num(0)
              /\ (~isna(MappedIn[i]) /\ MappedIn[i] # Str(lo)) => MappedOut[i] = Num(1)

\* the larger value appears first in the column
C5_Witness ==
    /\ pc = "mapped"
    /\ GenericPair(Values(col(df, mapped[1].name)))
    /\ ~isna(MappedIn[1])
    /\ MappedIn[1] # Str(MinStr(Values(col(df, mapped[1].name))))
    /\ MappedOut[1] = Num(1)

(***************************************************************************)
(* C6: the binary encoding maps each non-missing entry of a text field     *)
(* with exactly two distinct non-missing values to 0 or 1 and leaves every *)
(* missing entry missing.                                                  *)
(***************************************************************************)
BinaryFields(frame, target) ==
    {c \in TextFields(frame, target) : nunique(col(frame, c).vals) = 2}

C6_MissingStaysMissing ==
    pc = "built" =>
        \A c \in BinaryFields(df, target_col) :
            LET in == col(df, c).vals
                out == col(df_enc, c).vals
            IN \A i \in DOMAIN in :
                  IF isna(in[i]) THEN isna(out[i])
                  ELSE out[i] \in {Num(0), Num(1)}

(***************************************************************************)
(* C7: every non-target text field with N >= 3 distinct non-missing values *)
(* is removed and replaced by exactly N-1 indicator columns named          *)
(* '<field>_<value>', one per value except the lexicographically smallest; *)
(* an indicator is 1 exactly on the rows holding its value.                *)
(***************************************************************************)
MultiFields(frame, target) ==
    {c \in TextFields(frame, target) : nunique(col(frame, c).vals) >= 3}

\* the indicator values of a field: all but the smallest
IndicatorValues(column) == Values(column) \ {MinStr(Values(column))}

IndicatorNames(column) == {column.name \o "_" \o v : v \in IndicatorValues(column)}

\* positions of the output columns that the input did not have
NewColumns(in, out) == {i \in DOMAIN out : out[i].name \notin Range(columns(in))}

C7_OneHotExpansion ==
    pc = "built" =>
        /\ \A c \in MultiFields(df, target_col) :
              /\ ~has_column(df_enc, c)
              /\ ~has_column(df_enc, c \o "_" \o MinStr(Values(col(df, c))))
              /\ \A v \in IndicatorValues(col(df, c)) :
                    /\ Cardinality({i \in DOMAIN df_enc : df_enc[i].name = c \o "_" \o v}) = 1
                    /\ \A r \in DOMAIN col(df, c).vals :
                          col(df_enc, c \o "_" \o v).vals[r]
                            = Num(IF col(df, c).vals[r] = Str(v) THEN 1 ELSE 0)
        /\ \A i \in NewColumns(df, df_enc) :
              \E c \in MultiFields(df, target_col) :
                  df_enc[i].name \in IndicatorNames(col(df, c))

\* Contract over {Month-to-month, One year, Two year}: two indicators,
\* both 0 on a Month-to-month row
C7_Witness ==
    /\ pc = "built"
    /\ Values(col(df, "Contract")) = {"Month-to-month", "One year", "Two year"}
    /\ col(df, "Contract").vals[1] = Str("Two year")
    /\ col(df, "Contract").vals[2] = Str("Month-to-month")
    /\ has_column(df_enc, "Contract_One year")
    /\ has_column(df_enc, "Contract_Two year")
    /\ col(df_enc, "Contract_One year").vals[2] = Num(0)
    /\ col(df_enc, "Contract_Two year").vals[2] = Num(0)
    /\ Cardinality(NewColumns(df, df_enc)) = 2

(***************************************************************************)
(* C9: every column of build_features' output other than the target is     *)
(* numeric; no text column remains.                                        *)
(***************************************************************************)
NumericDtypes == {"int64", "float64", "Int64", "bool"}

C9_AllNumeric ==
    pc = "built" =>
        \A i \in DOMAIN df_enc :
            df_enc[i].name # target_col => df_enc[i].dtype \in NumericDtypes

(***************************************************************************)
(* C10: build_features applied to its own output returns it unchanged:     *)
(* same column names, same order, same values.                             *)
(***************************************************************************)
SameFrame(a, b) ==
    /\ columns(a) = columns(b)
    /\ \A i \in DOMAIN a : a[i].vals = b[i].vals

C10_Idempotent == pc = "reencoded" => SameFrame(df_enc2, df_enc)

\* idempotence holds on every input without a two-valued field holding a
\* missing entry
IdempotentWithoutMissingBinary ==
    (pc = "reencoded" /\ \A c \in BinaryFields(df, target_col) : \A x \in Range(col(df, c).vals) : ~isna(x))
        => SameFrame(df_enc2, df_enc)

\* the text columns of the output are exactly the fields left unencoded
TextOnlyWhereUnencoded ==
    pc = "built" =>
        \A i \in DOMAIN df_enc :
            (df_enc[i].name # target_col /\ df_enc[i].dtype \notin NumericDtypes) =>
                \/ nunique(col(df, df_enc[i].name).vals) < 2
                \/ (nunique(col(df, df_enc[i].name).vals) = 2 /\ NaN \in Range(col(df, df_enc[i].name).vals))

(***************************************************************************)
(* C1: encoding a training record alone at inference time gives, column    *)
(* for column, the values of that record's row in the training matrix.     *)
(***************************************************************************)
NRows(frame) == Len(frame[1].vals)

\* the matrix X the model is fitted on
TrainingMatrix == drop(df_enc, {target_col})

Unseen(c) ==
    /\ has_column(request, c)
    /\ ~isna(col(request, c).vals[1])
    /\ col(request, c).vals[1][2] \notin Values(col(df, c))

Classified == IF pc = "reencoded" THEN df_enc ELSE df

\* the number of classes that hold field c
ClassCount(frame, target, c) ==
    (IF c \in Range(binary_cols(frame, target)) THEN 1 ELSE 0)
    + (IF c \in Range(multi_cols(frame, target)) THEN 1 ELSE 0)
    + (IF c \in Range(numeric_cols(frame)) \cup Range(select_dtypes(frame, {"bool"}))
       THEN 1 ELSE 0)

NonTargetFields(frame, target) == Range(columns(frame)) \ {target}

C11_ExactlyOneClass ==
    pc \in {"built", "reencoded"} =>
        \A c \in NonTargetFields(Classified, target_col) :
            ClassCount(Classified, target_col, c) = 1

\* amended: at most one class, and none exactly for a text field with fewer
\* than two distinct non-missing values
C11_AtMostOneClass ==
    pc \in {"built", "reencoded"} =>
        \A c \in NonTargetFields(Classified, target_col) :
            /\ ClassCount(Classified, target_col, c) <= 1
            /\ ClassCount(Classified, target_col, c) = 0
                  <=> (col(Classified, c).dtype = "object"
                       /\ nunique(col(Classified, c).vals) < 2)

\* one field in no class, one multi-categorical, one numeric
C11_Witness ==
    /\ pc = "built"
    /\ target_col = "Churn"
    /\ ClassCount(df, target_col, "gender") = 0
    /\ "Contract" \in Range(multi_cols(df, target_col))
    /\ "tenure" \in Range(numeric_cols(df))

(***************************************************************************)
(* C12: a non-target text field with fewer than two distinct non-missing   *)
(* values comes out of build_features unchanged (same name, same values,   *)
(* still text) and no indicator column is generated for it.                *)
(***************************************************************************)
ConstantFields(frame, target) ==
    {c \in TextFields(frame, target) : nunique(col(frame, c).vals) < 2}

C12_ConstantFieldUnchanged ==
    pc = "built" =>
        \A c \in ConstantFields(df, target_col) :
            /\ Cardinality({i \in DOMAIN df_enc : df_enc[i].name = c}) = 1
            /\ col(df_enc, c) = col(df, c)
            /\ \A i \in NewColumns(df, df_enc) :
                  df_enc[i].name \notin {c \o "_" \o v : v \in Values(col(df, c)) \cup {"nan"}}

\* one observed value and a missing entry, next to a one-hot encoded field
C12_Witness ==
    /\ pc = "built"
    /\ "gender" \in ConstantFields(df, target_col)
    /\ NaN \in Range(col(df, "gender").vals)
    /\ Values(col(df, "gender")) # {}
    /\ NewColumns(df, df_enc) # {}
    /\ col(df_enc, "gender") = col(df, "gender")

(***************************************************************************)
(* C19: an entry of TotalCharges that is not a valid number is coerced to  *)
(* missing and comes out of preprocess_data as 0; afterwards no numeric    *)
(* column holds a missing value, and missing entries of the text fields    *)
(* are left as they were.                                                  *)
(***************************************************************************)
InvalidNumber(x) == x[1] = "str" /\ x[2] \notin DOMAIN NumericText

NumberDtypes == {"int64", "float64", "Int64"}

C19_TotalChargesCoerced ==
    pc = "cleaned" =>
        /\ \A i \in DOMAIN col(raw, "TotalCharges").vals :
              InvalidNumber(col(raw, "TotalCharges").vals[i])
                  => col(df, "TotalCharges").vals[i] = Num(0)
        /\ col(df, "TotalCharges").dtype \in NumberDtypes
        /\ \A j \in DOMAIN df :
              IF df[j].dtype \in NumberDtypes
              THEN NaN \notin Range(df[j].vals)
              ELSE df[j].name # "Churn" => df[j] = col(raw, df[j].name)

\* a blank TotalCharges, a missing MonthlyCharges and a missing gender
C19_Witness ==
    /\ pc = "cleaned"
    /\ col(raw, "TotalCharges").vals[1] = Str(" ")
    /\ col(df, "TotalCharges").vals[1] = Num(0)
    /\ col(raw, "MonthlyCharges").vals[1] = NaN
    /\ col(df, "MonthlyCharges").vals[1] = Num(0)
    /\ col(raw, "gender").vals[1] = NaN
    /\ col(df, "gender").vals[1] = NaN

(***************************************************************************)
(* C20: after preprocess_data a text target holds no missing value, only   *)
(* 0 and 1, with No -> 0 and Yes -> 1 after trimming; the sanity           *)
(* assertions of the data-preparation script hold.                         *)
(***************************************************************************)
\* the target column as the caller passed it
RawTarget == col(strip_columns(raw), "Churn")

C20_TargetEncoded ==
    (pc = "cleaned" /\ RawTarget.dtype = "object") =>
        /\ \A i \in DOMAIN RawTarget.vals :
              /\ col(df, "Churn").vals[i] \in {Num(0), Num(1)}
              /\ (RawTarget.vals[i][1] = "str" /\ str_strip(RawTarget.vals[i][2]) = "No")
                    => col(df, "Churn").vals[i] = Num(0)
              /\ (RawTarget.vals[i][1] = "str" /\ str_strip(RawTarget.vals[i][2]) = "Yes")
                    => col(df, "Churn").vals[i] = Num(1)
        /\ sanity_assertions(secure_target(df))

\* a padded Yes and a label that is neither Yes nor No
C20_Witness ==
    /\ pc = "cleaned"
    /\ Len(RawTarget.vals) = 2
    /\ RawTarget.vals[1] = Str(" Yes")
    /\ RawTarget.vals[2] = Str("Maybe")
    /\ col(df, "Churn").vals = <<Num(1), Num(0)>>
    /\ sanity_assertions(secure_target(df))

(***************************************************************************)
(* C13: the column list written to preprocessing.pkl and                   *)
(* feature_columns.json is the column sequence of the matrix X the model   *)
(* is fitted on (same names, same order, target excluded), and the         *)
(* artifact records the target field name.                                 *)
(***************************************************************************)
C13_PersistedColumnsAreX ==
    run.fitted =>
        /\ run.preprocessing_pkl.feature_columns = columns(run.X)
        /\ run.feature_columns_json = columns(run.X)
        /\ target_col \notin Range(run.preprocessing_pkl.feature_columns)
        /\ run.preprocessing_pkl.target = target_col

\* a fitted run whose matrix has an encoded gender column next to the others
C13_Witness ==
    /\ run.fitted
    /\ has_column(df_enc, target_col)
    /\ "gender" \in Range(run.preprocessing_pkl.feature_columns)
    /\ Len(columns(run.X)) = Len(columns(df_enc)) - 1

(***************************************************************************)
(* C14: preprocessing, encoding, artifact persistence and fitting happen   *)
(* only after validate_telco_data returned success; when validation fails  *)
(* the run records data_quality_pass = 0 and the failed checks, raises     *)
(* ValueError and does none of the later steps.                            *)
(***************************************************************************)
LaterSteps == {"preprocess_data", "build_features", "save_artifacts", "fit"}

C14_ValidationGate ==
    /\ (\E i \in DOMAIN run.log : run.log[i] \in LaterSteps) =>
          /\ run.log[1] = "validate_telco_data"
          /\ validate_telco_data(raw).success
          /\ run.metrics = {<<"data_quality_pass", 1>>}
    /\ (pc # "start" /\ ~validate_telco_data(raw).success) =>
          /\ pc = "error"
          /\ run.error = "ValueError: quality"
          /\ run.metrics = {<<"data_quality_pass", 0>>}
          /\ run.failed_expectations = validate_telco_data(raw).failed
          /\ run.failed_expectations # <<>>
          /\ run.log = <<"validate_telco_data">>
          /\ run.files = {"failed_expectations.json"}
          /\ df = NoFrame /\ df_enc = NoFrame /\ feature_cols = <<>>
          /\ ~run.fitted

\* a run stopped by a gender outside the allowed set
C14_Witness ==
    /\ pc = "error"
    /\ run.failed_expectations = <<"expect_column_values_to_be_in_set">>
    /\ run.metrics = {<<"data_quality_pass", 0>>}
    /\ run.log = <<"validate_telco_data">>

(***************************************************************************)
(* C15: when the target column is absent from the data, the run raises a   *)
(* configuration error before build_features is called and before any      *)
(* contract artifact is written or a model is fitted.                      *)
(***************************************************************************)
ContractFiles == {"feature_columns.json", "feature_columns.txt", "preprocessing.pkl"}

C15_TargetAbsent ==
    (pc \notin {"start", "validated", "preprocessed"}
        /\ validate_telco_data(raw).success
        /\ ~has_column(preprocess_data(raw, "Churn"), target_col)) =>
            /\ pc = "error"
            /\ run.error = "ValueError: target"
            /\ "build_features" \notin Range(run.log)
            /\ df_enc = NoFrame
            /\ run.files \cap ContractFiles = {}
            /\ run.preprocessing_pkl = NoRun.preprocessing_pkl
            /\ ~run.fitted

C15_Witness ==
    /\ pc = "error"
    /\ run.error = "ValueError: target"
    /\ target_col = "churn"
    /\ run.log = <<"validate_telco_data", "preprocess_data">>

(***************************************************************************)
(* C16: a /predict request that omits a required field of CustomerData     *)
(* (TechSupport for one) is rejected with a schema validation error:       *)
(* predict is never called for it and no default value stands in for the   *)
(* missing field.                                                          *)
(***************************************************************************)
C16_MissingFieldRejected ==
    /\ (api.state # "idle" /\ ~(CustomerDataFields \subseteq api.payload)) =>
          /\ api.state = "rejected"
          /\ api.status = 422
          /\ ~api.predict_called
          /\ api.record = <<>>
    /\ \A f \in DOMAIN api.record : api.record[f] = "sent"

C16_Witness ==
    /\ api.state = "rejected"
    /\ api.payload = CustomerDataFields \ {"TechSupport"}
    /\ api.status = 422
    /\ ~api.predict_called

(***************************************************************************)
(* C17: for every validated request the handler returns a response with    *)
(* exactly one key, 'prediction' when predict succeeds, 'error' with the   *)
(* exception text when predict raises; no exception of predict reaches     *)
(* the caller.                                                             *)
(***************************************************************************)
C17_HandlerNeverCrashes ==
    api.state = "responded" =>
        /\ ~api.propagated
        /\ Cardinality(api.response.keys) = 1
        /\ api.response.keys \subseteq {"prediction", "error"}
        /\ api.response.keys = {"error"} => api.response.text = "str(e)"
        /\ api.status = 200

C17_Witness ==
    /\ api.state = "responded"
    /\ api.predict_called
    /\ api.response = [keys |-> {"error"}, text |-> "str(e)"]

(***************************************************************************)
(* C18: CustomerData holds every raw feature field of the training data    *)
(* (identifier and target excluded), so the record passed to predict       *)
(* carries the raw fields the training encoder saw, and the fields of the  *)
(* sample API payload are exactly the fields of the schema.                *)
(***************************************************************************)
C18_SchemaMatchesTraining ==
    api.state \in {"validated", "responded"} =>
        /\ TrainingFeatureFields(raw) \subseteq DOMAIN api.record
        /\ api.payload = SampleFields => DOMAIN api.record = api.payload

C22_PreprocessPure == pc = "cleaned" => caller = raw

\* what does hold: with an identifier column the caller's record set
\* changes in its column names only
CallerKeepsValuesWithIdColumn ==
    (pc = "cleaned" /\ \E c \in IdColumns : has_column(strip_columns(raw), c))
        => caller = strip_columns(raw)

(***************************************************************************)
(* C29: a record whose text target label is neither Yes nor No after       *)
(* trimming, or is missing, comes out of preprocess_data with target 0,    *)
(* with no error and nothing that marks the label as invalid.              *)
(***************************************************************************)
InvalidLabel(x) == ~(x[1] = "str" /\ str_strip(x[2]) \in {"No", "Yes"})

C29_InvalidLabelBecomesZero ==
    (pc = "cleaned" /\ RawTarget.dtype = "object") =>
        /\ \A i \in DOMAIN RawTarget.vals :
              InvalidLabel(RawTarget.vals[i]) => col(df, "Churn").vals[i] = Num(0)
        /\ columns(df) = columns(drop_ids(strip_columns(raw)))
        /\ col(df, "Churn").dtype \in NumberDtypes

\* an unknown label and a missing one, both 0 next to nothing else
C29_Witness ==
    /\ pc = "cleaned"
    /\ Len(RawTarget.vals) = 2
    /\ RawTarget.vals[1] = Str("Maybe")
    /\ RawTarget.vals[2] = NaN
    /\ col(df, "Churn").vals = <<Num(0), Num(0)>>

(***************************************************************************)
(* C24: permuting the rows of the input leaves the output's column names   *)
(* and column order unchanged and encodes each row to the same values:     *)
(* neither the 0/1 mapping nor the dropped reference category depends on   *)
(* row order.                                                              *)
(***************************************************************************)
\* the exchanges of two rows; every permutation is a product of them, and
\* every permuted record set is itself one of the inputs
Swaps(n) ==
    {[r \in 1..n |-> IF r = i THEN j ELSE IF r = j THEN i ELSE r] : i, j \in 1..n}

\* the record set with row r taken from row p[r]
permute(frame, p) ==
    [i \in DOMAIN frame |->
        Column(frame[i].name, frame[i].dtype,
               [r \in DOMAIN frame[i].vals |-> frame[i].vals[p[r]]])]

C24_RowOrderIndependent ==
    pc = "built" =>
        \A p \in Swaps(NRows(df)) :
            LET out == build_features(permute(df, p), target_col)
            IN /\ columns(out) = columns(df_enc)
               /\ out = permute(df_enc, p)

\* Yes before No, Two year before the reference Month-to-month: the
\* reversed record set is encoded row for row alike
C24_Witness ==
    /\ pc = "built"
    /\ NRows(df) = 3
    /\ col(df, "gender").vals = <<Str("Yes"), Str("No"), Str("Yes")>>
    /\ col(df, "Contract").vals = <<Str("Two year"), Str("One year"), Str("Month-to-month")>>
    /\ col(df_enc, "gender").vals = <<Num(1), Num(0), Num(1)>>
    /\ target_col = "Churn"
    /\ col(build_features(permute(df, <<3, 2, 1>>), target_col), "Contract_Two year").vals
          = <<Num(0), Num(0), Num(1)>>

(***************************************************************************)
(* C25: on a record set of a single row every text field has one distinct  *)
(* value, no field is classified binary or multi-categorical, the text     *)
(* fields are returned as text, and no 0/1 value and no indicator column   *)
(* is produced.                                                            *)
(***************************************************************************)
C25_SingleRow ==
    (pc = "built" /\ NRows(df) = 1) =>
        /\ \A c \in TextFields(df, target_col) : nunique(col(df, c).vals) <= 1
        /\ binary_cols(df, target_col) = <<>>
        /\ multi_cols(df, target_col) = <<>>
        /\ columns(df_enc) = columns(df)
        /\ \A c \in TextFields(df, target_col) : col(df_enc, c) = col(df, c)

C25_Witness ==
    /\ pc = "built"
    /\ NRows(df) = 1
    /\ col(df, "gender").vals = <<Str("Male")>>
    /\ col(df_enc, "gender") = Column("gender", "object", <<Str("Male")>>)
    /\ col(df_enc, "Contract").dtype = "object"

(***************************************************************************)
(* C28: in the output the columns that are not one-hot expanded keep their *)
(* relative input order and come first; the indicator columns follow,      *)
(* grouped by source field in input column order and, within a field, in   *)
(* lexicographic order of the category value.                              *)
(***************************************************************************)
Pos(frame, name) == CHOOSE i \in DOMAIN frame : frame[i].name = name

\* the field and the value an indicator column stands for
CodePointStrings == DOMAIN CodePoints

IndicatorOf(name) ==
    CHOOSE cv \in {<<c, v>> : c \in MultiFields(df, target_col), v \in CodePointStrings} :
        name = cv[1] \o "_" \o cv[2]

IsIndicator(i) == i \in NewColumns(df, df_enc)

InOrder(i, j) ==
    IF ~IsIndicator(i) /\ ~IsIndicator(j)
    THEN Pos(df, df_enc[i].name) < Pos(df, df_enc[j].name)
    ELSE IF IsIndicator(i) /\ IsIndicator(j)
    THEN LET a == IndicatorOf(df_enc[i].name)
             b == IndicatorOf(df_enc[j].name)
         IN \/ Pos(df, a[1]) < Pos(df, b[1])
            \/ a[1] = b[1] /\ StrLess(a[2], b[2])
    ELSE ~IsIndicator(i)

C28_ColumnOrder ==
    pc = "built" =>
        \A i, j \in DOMAIN df_enc : i < j => InOrder(i, j)

\* two expanded fields, values met in descending order
C28_Witness ==
    /\ pc = "built"
    /\ col(df, "gender").vals = <<Str("No"), Str("Male"), Str("Female")>>
    /\ col(df, "Contract").vals = <<Str("Two year"), Str("One year"), Str("Month-to-month")>>
    /\ columns(df_enc) = <<"tenure", "Churn", "gender_Male", "gender_No",
                           "Contract_One year", "Contract_Two year">>

(***************************************************************************)
(* C23: validate_telco_data returns success = true exactly when every      *)
(* check passed, that is exactly when the list of failed checks it returns *)
(* is empty, and the list holds one entry for each failed check.           *)
(***************************************************************************)
FailedChecks(results) == {i \in DOMAIN results : ~results[i].success}

C23_SuccessIffNoFailure ==
    pc # "start" =>
        LET v == validate_telco_data(raw)
            failed == FailedChecks(validation_results(raw))
        IN /\ v.success <=> failed = {}
           /\ v.success <=> v.failed = <<>>
           /\ Len(v.failed) = Cardinality(failed)
           /\ run.metrics = {<<"data_quality_pass", int(v.failed = <<>>)>>}
           /\ run.failed_expectations = v.failed

\* three checks fail: gender outside its set, a missing MonthlyCharges and
\* with it the pair comparison
C23_Witness ==
    /\ pc = "error"
    /\ Cardinality(FailedChecks(validation_results(raw))) = 3
    /\ run.failed_expectations = <<"expect_column_values_to_be_in_set",
                                   "expect_column_values_to_not_be_null",
                                   "expect_column_pair_values_A_to_be_greater_than_B">>
    /\ run.metrics = {<<"data_quality_pass", 0>>}

(***************************************************************************)
(* C26: for every input with pairwise distinct column names the column     *)
(* names of the output are pairwise distinct: an indicator name            *)
(* '<field>_<value>' never equals another indicator name or the name of a  *)
(* passed-through column.                                                  *)
(***************************************************************************)
DistinctNames(frame) ==
    \A i, j \in DOMAIN frame : frame[i].name = frame[j].name => i = j

C26_DistinctOutputNames ==
    (pc = "built" /\ DistinctNames(df)) => DistinctNames(df_enc)

\* what does hold: the output names are distinct whenever no input column
\* bears the name of an indicator
DistinctUnlessInputHasIndicatorName ==
    (pc = "built" /\ DistinctNames(df)
        /\ \A c \in MultiFields(df, target_col) :
              IndicatorNames(col(df, c)) \cap Range(columns(df)) = {})
        => DistinctNames(df_enc)

(***************************************************************************)
(* C27: for every row and every one-hot encoded field at most one of the   *)
(* field's indicator columns is 1; all of them are 0 exactly when the      *)
(* row's value is the dropped reference category or is missing.            *)
(***************************************************************************)
\* positions of the indicator columns get_dummies made for a field
IndicatorsOf(c) ==
    {i \in DOMAIN df_enc : /\ df_enc[i].dtype = "bool"
                           /\ df_enc[i].name \in IndicatorNames(col(df, c))}

C27_AtMostOneIndicator ==
    pc = "built" =>
        \A c \in MultiFields(df, target_col) :
            \A r \in DOMAIN col(df, c).vals :
                LET ones == {i \in IndicatorsOf(c) : df_enc[i].vals[r] = Num(1)}
                    v == col(df, c).vals[r]
                IN /\ Cardinality(ones) <= 1
                   /\ ones = {} <=> (isna(v) \/ v = Str(MinStr(Values(col(df, c)))))

\* a missing Contract and a Month-to-month one, both 0 in both indicators
C27_Witness ==
    /\ pc = "built"
    /\ col(df, "Contract").vals = <<NaN, Str("Month-to-month"), Str("Two year"), Str("One year")>>
    /\ Cardinality(IndicatorsOf("Contract")) = 2
    /\ \A i \in IndicatorsOf("Contract") :
          df_enc[i].vals[1] = Num(0) /\ df_enc[i].vals[2] = Num(0)
    /\ \E i \in IndicatorsOf("Contract") : df_enc[i].vals[3] = Num(1)

(***************************************************************************)
(* C30: two preprocess_data calls running concurrently on the same         *)
(* record-set object (text target, no identifier column) each return what  *)
(* a single call on that record set returns and neither raises, under      *)
(* every interleaving of their steps.                                      *)
(***************************************************************************)
C30_ConcurrentCalls ==
    \A p \in DOMAIN calls :
        /\ calls[p] # "raised"
        /\ calls[p] = "done" => caller = preprocess_data(raw, target_col)

\* what does hold: a call that returns while the other has not raised
\* returns what a single call returns
ReturnsSingleCallResult ==
    (\A p \in DOMAIN calls : calls[p] = "done") => caller = preprocess_data(raw, target_col)

====
